---- MODULE Spec2Model ----
(***************************************************************************)
(* go-bin-utils: the build-matrix orchestrator (buildBinary, runBuildCMD), *)
(* the synchronous runner with its timing-log parser (runPlatformBin) and  *)
(* the supervised runner (runPlatformBinInWorker, worker.js), as state     *)
(* machines translated from package/main.js and package/worker.js.         *)
(*                                                                         *)
(* JavaScript strings that the code only compares or concatenates are      *)
(* TLA+ strings or tuples of their parts (`${platform}-${arch}` is the      *)
(* pair <<platform, arch>>, `${binName}.exe` is <<binName, ".exe">>); the  *)
(* strings the timing parser cuts are sequences of one-character strings.  *)
(***************************************************************************)
EXTENDS Integers, Sequences, FiniteSets, TLC

VARIABLES
    host,        \* [platform, arch]: os.platform() and os.arch() of the process
    fs,          \* destDir: sub-directory -> Absent or Dir(the files in it)
    bpc,         \* buildBinary: "idle" | "loop" | "done"
    binName,     \* buildBinary's binName after line 56-58, <<name, suffix>>
    dev,         \* buildBinary's dev argument
    pi,          \* index of the outer loop (line 66) into Object.values(PLATFORM_MAPPING)
    ai,          \* index of the inner loop (line 67) into Object.values(ARCH_MAPPING)
    invoked,     \* the spawnSync compiler invocations of the current call, in order
    rejected,    \* a promise returned by runBuildCMD in the current call rejected
    nbuilds,     \* buildBinary calls made
    nfail,       \* compiler failures so far
    binPresent,  \* fs.existsSync of the binary path resolved for the host
    rpc,         \* runPlatformBin: "idle" | "returned"
    logName,     \* runPlatformBin's logName argument
    ret,         \* runPlatformBin's return value, <<stdout, stderr>>
    spawned,     \* child processes spawned by the last runPlatformBin call
    outLog,      \* what the last call wrote with process.stdout.write
    errLog,      \* what the last call wrote with console.error
    worker,      \* main.js `worker`: the current Worker, 0 for null
    initialized, \* main.js `initialized`
    initBy,      \* the worker whose message last turned initialized from false to true
    received,    \* messages the "message" handlers ran for since the last call
    nworkers,    \* Workers created so far; they are numbered 1, 2, ...
    wstatus,     \* worker thread: "none" | "live" | "terminated" | "exited"
    inbox,       \* messages posted to a worker's parentPort, not yet handled
    outbox,      \* messages a worker posted to the main thread, not yet delivered
    proc,        \* worker.js `proc`: index into children of the worker, 0 for undefined
    children,    \* per worker, the child processes it spawned and the state of each
    wlog,        \* what the Worker event handlers of main.js wrote to stdout
    hostCrashed  \* the host process died of an uncaught error

bvars == <<fs, bpc, binName, dev, pi, ai, invoked, rejected, nbuilds, nfail>>

rvars == <<rpc, logName, ret, spawned, outLog, errLog>>

wvars == <<worker, initialized, initBy, received, nworkers, wstatus, inbox, outbox, proc,
           children, wlog, hostCrashed>>

vars == <<host, binPresent, bvars, rvars, wvars>>

-----------------------------------------------------------------------------
(* Bounds *)

MaxBuilds == 2

MaxFailures == 1

MaxSegments == 4

MaxWorkers == 3

-----------------------------------------------------------------------------
(* Platform matrix *)

\* What `${x}` prints and what === sees for a key missing from a mapping.
Undefined == "undefined"

PLATFORM_KEYS == <<"darwin", "freebsd", "linux", "win32">>

PLATFORM_MAPPING ==
    [k \in {"darwin", "freebsd", "linux", "win32"} |->
        IF k = "win32" THEN "windows" ELSE k]

ARCH_KEYS == <<"arm", "arm64", "ia32", "x64", "mips64le", "ppc64">>

ARCH_MAPPING ==
    [k \in {"arm", "arm64", "ia32", "x64", "mips64le", "ppc64"} |->
        CASE k = "ia32" -> "386"
          [] k = "x64" -> "amd64"
          [] OTHER -> k]

\* obj[key] of a JavaScript object: undefined for a missing key.
Lookup(obj, key) == IF key \in DOMAIN obj THEN obj[key] ELSE Undefined

\* The values of obj in the reverse of the insertion order of its keys.
ObjectValuesReversed(keys, obj) ==
    [i \in 1..Len(keys) |-> obj[keys[Len(keys) + 1 - i]]]

\* Object.values(obj) for an object whose keys were inserted in the order keys.
ObjectValues(keys, obj) == [i \in 1..Len(keys) |-> obj[keys[i]]]

Range(s) == {s[i] : i \in 1..Len(s)}

\* The values os.platform() and os.arch() take on the hosts considered; "sunos"
\* and "s390x" are Node.js values with no entry in the mappings.
HostPlatforms == {"darwin", "linux", "win32", "sunos"}

HostArchs == {"x64", "ia32", "s390x"}

Hosts == [platform : HostPlatforms, arch : HostArchs]

GoosOf(h) == Lookup(PLATFORM_MAPPING, h.platform)

GoarchOf(h) == Lookup(ARCH_MAPPING, h.arch)

-----------------------------------------------------------------------------
(* File system under destDir *)

\* A directory that does not exist; one that does holds a set of files.
Absent == [exists |-> FALSE, files |-> {}]

Dir(files) == [exists |-> TRUE, files |-> files]

BinNames == {"agent", "tool"}

Files == BinNames \X {"", ".exe"}

Dirs == (Range(ObjectValues(PLATFORM_KEYS, PLATFORM_MAPPING)) \cup {Undefined})
            \X (Range(ObjectValues(ARCH_KEYS, ARCH_MAPPING)) \cup {Undefined})

ExistsSync(f, d) == f[d].exists

\* cleanDir of @signalchain/utils/node empties the directory; whether the
\* directory itself survives is not fixed by its callers, so both are possible.
CleanDir(f, d) == {[f EXCEPT ![d] = Dir({})], [f EXCEPT ![d] = Absent]}

Mkdir(f, d) == [f EXCEPT ![d] = Dir({})]

-----------------------------------------------------------------------------
(* The three components before their first call *)

\* No buildBinary call yet, an empty destDir.
BuildIdle ==
    /\ fs = [d \in Dirs |-> Absent]
    /\ bpc = "idle"
    /\ binName = <<"", "">>
    /\ dev = FALSE
    /\ pi = 1
    /\ ai = 1
    /\ invoked = <<>>
    /\ rejected = FALSE
    /\ nbuilds = 0
    /\ nfail = 0

\* No runPlatformBin call yet.
RunIdle ==
    /\ rpc = "idle"
    /\ logName = ""
    /\ ret = <<<<>>, <<>>>>
    /\ spawned = 0
    /\ outLog = <<>>
    /\ errLog = <<>>

-----------------------------------------------------------------------------
(* Supervised runner: runPlatformBinInWorker (main.js) and worker.js *)

WorkerIds == 1..MaxWorkers

\* Module state of main.js (lines 192-193) before any call, no Worker created.
WorkerIdle ==
    /\ worker = 0
    /\ initialized = FALSE
    /\ initBy = 0
    /\ received = 0
    /\ nworkers = 0
    /\ wstatus = [w \in WorkerIds |-> "none"]
    /\ inbox = [w \in WorkerIds |-> <<>>]
    /\ outbox = [w \in WorkerIds |-> <<>>]
    /\ proc = [w \in WorkerIds |-> 0]
    /\ children = [w \in WorkerIds |-> <<>>]
    /\ wlog = <<>>
    /\ hostCrashed = FALSE

\* worker.postMessage(msg): queued for a running worker thread, dropped
\* silently once the thread was terminated.
PostMessage(box, status, w, msg) ==
    IF status[w] = "live" THEN [box EXCEPT ![w] = Append(@, msg)] ELSE box

\* A terminate() that stops no thread.
TerminateNothing(status, w) == status

\* worker?.terminate() (main.js:215): the thread stops; its exit event follows.
Terminate(status, w) ==
    IF w # 0 /\ status[w] = "live" THEN [status EXCEPT ![w] = "terminated"] ELSE status

\* runPlatformBinInWorker (main.js:201-229).
RunPlatformBinInWorker ==
    /\ ~hostCrashed
    /\ nworkers < MaxWorkers
    /\ LET w == nworkers + 1
           told == IF worker # 0
                   THEN PostMessage(inbox, wstatus, worker, [terminate |-> TRUE])
                   ELSE inbox
       IN  /\ initialized' = IF worker # 0 THEN FALSE ELSE initialized
           /\ initBy' = IF worker # 0 THEN 0 ELSE initBy
           /\ received' = 0
           /\ nworkers' = w
           /\ worker' = w
           /\ wstatus' = [wstatus EXCEPT ![w] = "live"]
           /\ inbox' = [told EXCEPT ![w] = <<[terminate |-> FALSE]>>]
    /\ UNCHANGED <<outbox, proc, children, wlog, hostCrashed>>
    /\ UNCHANGED <<host, binPresent, bvars, rvars>>

\* A kill() that signals nothing.
KillNothing(kids, p) == kids

\* proc?.kill() (worker.js:13): signals the tracked child if it still runs.
Kill(kids, p) ==
    IF p # 0 /\ kids[p] = "running" THEN [kids EXCEPT ![p] = "killed"] ELSE kids

\* spawn(...) (worker.js:22): a child process object is returned at once; for a
\* path that cannot be run its 'error' event comes later ("failing").
Spawn(kids) == Append(kids, IF binPresent THEN "running" ELSE "failing")

\* worker.js:10-35: the worker thread handles the next message of its port.
WorkerOnMessage(w) ==
    /\ ~hostCrashed
    /\ wstatus[w] = "live"
    /\ inbox[w] # <<>>
    /\ inbox' = [inbox EXCEPT ![w] = Tail(@)]
    /\ IF Head(inbox[w]).terminate
       THEN /\ children' = [children EXCEPT ![w] = Kill(@, proc[w])]
            /\ UNCHANGED <<proc, outbox>>
       ELSE /\ children' = [children EXCEPT ![w] = Spawn(@)]
            /\ proc' = [proc EXCEPT ![w] = Len(children[w]) + 1]
            /\ outbox' = [outbox EXCEPT ![w] = Append(@, "[cmd]")]
    /\ UNCHANGED <<worker, initialized, initBy, received, nworkers, wstatus, wlog, hostCrashed>>
    /\ UNCHANGED <<host, binPresent, bvars, rvars>>

\* main.js:212-218: the "message" handler registered for Worker w runs on the
\* next message of w. It reads the module variables `worker` and `initialized`,
\* whichever Worker they belong to by now.
MainOnMessage(w) ==
    /\ ~hostCrashed
    /\ outbox[w] # <<>>
    /\ outbox' = [outbox EXCEPT ![w] = Tail(@)]
    /\ wlog' = Append(wlog, <<"message", w>>)
    /\ wstatus' = IF initialized THEN Terminate(wstatus, worker) ELSE wstatus
    /\ initialized' = TRUE
    /\ initBy' = IF initialized THEN initBy ELSE w
    /\ received' = received + 1
    /\ UNCHANGED <<worker, nworkers, inbox, proc, children, hostCrashed>>
    /\ UNCHANGED <<host, binPresent, bvars, rvars>>

\* Messages of a terminated worker that were not delivered yet may be lost.
MessageLost(w) ==
    /\ ~hostCrashed
    /\ wstatus[w] \in {"terminated", "exited"}
    /\ outbox[w] # <<>>
    /\ outbox' = [outbox EXCEPT ![w] = Tail(@)]
    /\ UNCHANGED <<worker, initialized, initBy, received, nworkers, wstatus, inbox, proc,
                   children, wlog, hostCrashed>>
    /\ UNCHANGED <<host, binPresent, bvars, rvars>>

\* main.js:220-222: the "exit" handler of a terminated Worker.
MainOnExit(w) ==
    /\ ~hostCrashed
    /\ wstatus[w] = "terminated"
    /\ wstatus' = [wstatus EXCEPT ![w] = "exited"]
    /\ wlog' = Append(wlog, <<"exit", w>>)
    /\ UNCHANGED <<worker, initialized, initBy, received, nworkers, inbox, outbox, proc,
                   children, hostCrashed>>
    /\ UNCHANGED <<host, binPresent, bvars, rvars>>

\* A running child ends by itself.
ChildExit(w, c) ==
    /\ c \in 1..Len(children[w])
    /\ children[w][c] = "running"
    /\ children' = [children EXCEPT ![w][c] = "exited"]
    /\ UNCHANGED <<worker, initialized, initBy, received, nworkers, wstatus, inbox, outbox,
                   proc, wlog, hostCrashed>>
    /\ UNCHANGED <<host, binPresent, bvars, rvars>>

\* The 'error' event of a child that could not be spawned. worker.js registers
\* no 'error' listener on the child and main.js none on the Worker: in a live
\* worker thread the event is an uncaught exception that ends the thread, and
\* the Worker's 'error' event in turn is an uncaught exception of the host.
ChildSpawnError(w, c) ==
    /\ c \in 1..Len(children[w])
    /\ children[w][c] = "failing"
    /\ children' = [children EXCEPT ![w][c] = "failed"]
    /\ IF wstatus[w] = "live" /\ ~hostCrashed
       THEN /\ hostCrashed' = TRUE
            /\ wstatus' = [v \in WorkerIds |->
                              IF wstatus[v] = "none" THEN "none" ELSE "exited"]
       ELSE UNCHANGED <<hostCrashed, wstatus>>
    /\ UNCHANGED <<worker, initialized, initBy, received, nworkers, inbox, outbox, proc, wlog>>
    /\ UNCHANGED <<host, binPresent, bvars, rvars>>

InitWorker ==
    /\ host \in Hosts
    /\ binPresent \in BOOLEAN
    /\ WorkerIdle
    /\ BuildIdle
    /\ RunIdle

NextWorker ==
    \/ RunPlatformBinInWorker
    \/ \E w \in WorkerIds : WorkerOnMessage(w)
    \/ \E w \in WorkerIds : MainOnMessage(w)
    \/ \E w \in WorkerIds : MessageLost(w)
    \/ \E w \in WorkerIds : MainOnExit(w)
    \/ \E w \in WorkerIds : \E c \in DOMAIN children[w] : ChildExit(w, c)
    \/ \E w \in WorkerIds : \E c \in DOMAIN children[w] : ChildSpawnError(w, c)

SpecWorker == InitWorker /\ [][NextWorker]_vars

-----------------------------------------------------------------------------
(* Timing-log parser of runPlatformBin (lines 156-187) *)

\* The private delimiter "+~+~+" of line 160.
Delimiter == <<"+", "~", "+", "~", "+">>

Min(a, b) == IF a < b THEN a ELSE b

\* s.slice(a, b) for 0 <= a and 0 <= b.
Slice(s, a, b) == SubSeq(s, a + 1, Min(b, Len(s)))

\* s starts with sub at the 0-based index i.
StartsAt(s, sub, i) ==
    /\ i + Len(sub) <= Len(s)
    /\ \A k \in 1..Len(sub) : s[i + k] = sub[k]

\* s.indexOf(sub): the first 0-based index where sub starts, -1 when there is none.
IndexOf(s, sub) ==
    LET hits == {i \in 0..Len(s) : StartsAt(s, sub, i)}
    IN  IF hits = {} THEN -1 ELSE CHOOSE i \in hits : \A j \in hits : i <= j

\* s.split(sep) for a non-empty string sep.
RECURSIVE Split(_, _)
Split(s, sep) ==
    LET i == IndexOf(s, sep)
    IN  IF i = -1
        THEN <<s>>
        ELSE <<Slice(s, 0, i)>> \o Split(Slice(s, i + Len(sep), Len(s)), sep)

AsciiLetters == {"m", "s", "b", "o", "n"}

\* /[a-zA-Zµ]/ of line 164, on the characters of the payloads considered.
IsLetter(c) == c \in AsciiLetters \cup {"µ"}

\* /[a-zA-Zµ]/gi of line 166: under the i flag the micro sign U+00B5 also
\* matches the Greek letters mu it is case-folded with.
IsLetterIgnoreCase(c) == IsLetter(c) \/ c \in {"μ", "Μ"}

\* ts.split(/[a-zA-Zµ]/)[0]: ts up to its first letter.
Nums(ts) ==
    LET at == {i \in 1..Len(ts) : IsLetter(ts[i])}
    IN  IF at = {} THEN ts
        ELSE SubSeq(ts, 1, (CHOOSE i \in at : \A j \in at : i <= j) - 1)

\* ts.match(/[a-zA-Zµ]/gi) joined: the letters of ts in order.
RECURSIVE Letters(_)
Letters(ts) ==
    IF ts = <<>> THEN <<>>
    ELSE (IF IsLetterIgnoreCase(Head(ts)) THEN <<Head(ts)>> ELSE <<>>)
             \o Letters(Tail(ts))

\* Lines 166-173.
Unit(ts) == IF Letters(ts) = <<>> THEN <<"m", "s">> ELSE Letters(ts)

\* Line 177 with the offsets 3 and 4 in place of 2 and 6.
DisplayTwoPlaces(ts) ==
    LET delim == IndexOf(ts, <<".">>)
        nums == Nums(ts)
    IN  Slice(nums, 0, delim + 3) \o Slice(nums, delim + 4, Len(ts)) \o Unit(ts)

\* Line 177: nums.slice(0, delim + 2) + nums.slice(delim + 6, ts.length) + unit.
Display(ts) ==
    LET delim == IndexOf(ts, <<".">>)
        nums == Nums(ts)
    IN  Slice(nums, 0, delim + 2) \o Slice(nums, delim + 6, Len(ts)) \o Unit(ts)

\* Line 162 without its `ts &&`.
TakesDurationBranchOnCount(ts, parts) == Len(parts) = 2

\* Line 162: ts && se.split("+~+~+").length === 2.
TakesDurationBranch(ts, parts) == ts # <<>> /\ Len(parts) = 2

\* Lines 157-186 on a non-empty payload se: what goes to process.stdout (out)
\* and to console.error (err). [ts, err] = parts leaves err undefined when the
\* split has one part; `if (err)` skips the undefined and the empty err alike.
ParseTiming(se, label) ==
    LET parts == Split(se, Delimiter)
        ts == parts[1]
        hasErr == Len(parts) >= 2 /\ parts[2] # <<>>
    IN  [out |-> IF TakesDurationBranch(ts, parts)
                 THEN <<[kind |-> "duration", label |-> label, text |-> Display(ts)]>>
                 ELSE <<>>,
         err |-> (IF TakesDurationBranch(ts, parts) THEN <<>> ELSE <<ts>>)
                    \o (IF hasErr THEN <<parts[2]>> ELSE <<>>)]

-----------------------------------------------------------------------------
(* Synchronous runner: runPlatformBin *)

\* What the child may write to its stderr: up to MaxSegments of these pieces.
Segments ==
    { Delimiter,
      <<"1", "2", "3", ".", "4", "5", "6", "m", "s">>,
      <<"1", ".", "2", "3", "4", "5", "6", "7", "8", "m", "s">>,
      <<"4", "2", "µ", "s">>,
      <<"1", "m", "3", ".", "5", "s">>,
      <<"b", "o", "o", "m">>,
      <<"+", "~">> }

RECURSIVE PayloadsOf(_)
PayloadsOf(n) ==
    IF n = 0 THEN {<<>>}
    ELSE LET shorter == PayloadsOf(n - 1)
         IN  shorter \cup {p \o g : p \in shorter, g \in Segments}

Payloads == PayloadsOf(MaxSegments)

Stdouts == {<<>>, <<"o", "n">>}

LogNames == {"", "[compiler]"}

\* proc.stdout?.toString() of a null proc.stdout: undefined, no text at all.
NoText == <<Undefined>>

\* The test of line 143 replaced by one that never short-circuits.
ShortCircuitNever(present) == FALSE

\* Line 143: !fs.existsSync(path.join(binPath, cmd)).
ShortCircuit(present) == ~present

\* spawnSync (line 147) either runs the child to its end ("ran": stdout and
\* stderr are buffers) or fails to run it ("error": proc.stdout and proc.stderr
\* are null); a file that does not exist cannot be run.
SpawnSyncOutcomes(present) == IF present THEN {"ran", "error"} ELSE {"error"}

\* runPlatformBin (lines 137-190), one call from entry to return.
RunPlatformBin(label) ==
    /\ rpc = "idle"
    /\ rpc' = "returned"
    /\ logName' = label
    /\ IF ShortCircuit(binPresent)
       THEN /\ ret' = <<<<>>, <<>>>>
            /\ spawned' = 0
            /\ outLog' = <<>>
            /\ errLog' = <<>>
       ELSE \E outcome \in SpawnSyncOutcomes(binPresent) :
            \E stdout \in Stdouts, stderr \in Payloads :
                /\ spawned' = 1
                /\ IF outcome = "error"
                   THEN /\ ret' = <<NoText, NoText>>
                        /\ outLog' = <<>>
                        /\ errLog' = <<>>
                   ELSE LET parsed == IF stderr # <<>> /\ label # ""
                                      THEN ParseTiming(stderr, label)
                                      ELSE [out |-> <<>>, err |-> <<>>]
                        IN  /\ ret' = <<stdout, stderr>>
                            /\ outLog' =
                                  (IF stdout # <<>>
                                   THEN <<[kind |-> "stdout", label |-> label,
                                           text |-> stdout]>>
                                   ELSE <<>>) \o parsed.out
                            /\ errLog' = parsed.err
    /\ UNCHANGED <<host, binPresent, bvars, wvars>>

InitRun ==
    /\ host \in Hosts
    /\ binPresent \in BOOLEAN
    /\ RunIdle
    /\ BuildIdle
    /\ WorkerIdle

\* The caller takes the returned pair; the next call starts from a clean record
\* of what a call returned and wrote.
TakeResult ==
    /\ rpc = "returned"
    /\ rpc' = "idle"
    /\ logName' = ""
    /\ ret' = <<<<>>, <<>>>>
    /\ spawned' = 0
    /\ outLog' = <<>>
    /\ errLog' = <<>>
    /\ UNCHANGED <<host, binPresent, bvars, wvars>>

NextRun ==
    \/ \E label \in LogNames : RunPlatformBin(label)
    \/ TakeResult

SpecRun == InitRun /\ [][NextRun]_vars

-----------------------------------------------------------------------------
(* Build orchestrator: buildBinary and runBuildCMD *)

PlatformValues == ObjectValues(PLATFORM_KEYS, PLATFORM_MAPPING)

ArchValues == ObjectValues(ARCH_KEYS, ARCH_MAPPING)

\* Lines 68-78 with the windows test a copy of the darwin/freebsd one.
ContinueWindowsAsDarwin(platform, arch) ==
    /\ platform = "darwin" \/ platform = "freebsd" \/ platform = "windows"
    /\ arch = "386" \/ arch = "arm" \/ arch = "mips64le" \/ arch = "ppc64"

\* Lines 68-78: the pairs the loop body leaves with `continue`.
Continue(platform, arch) ==
    \/ /\ platform = "darwin" \/ platform = "freebsd"
       /\ arch = "386" \/ arch = "arm" \/ arch = "mips64le" \/ arch = "ppc64"
    \/ /\ platform = "windows"
       /\ arch = "arm" \/ arch = "arm64" \/ arch = "mips64le" \/ arch = "ppc64"

\* Lines 56-58: the suffix depends on the host's goos, once per call.
ExeName(name, goos) == IF goos = "windows" THEN <<name, ".exe">> ELSE <<name, "">>

\* spawnSync("env", [GOOS=.., GOARCH=.., "go", "build", ..]) ends in one of:
\*   "ok"          exit status 0, the binary is written at binPath;
\*   "nonzero"     the compiler exits with a non-zero status, nothing is written;
\*   "spawnerror"  the child could not be run: proc.error is set, proc.stdout is null.
\* The Go toolchain knows no GOOS or GOARCH named "undefined".
Outcomes(platform, arch) ==
    IF platform = Undefined \/ arch = Undefined
    THEN {"nonzero", "spawnerror"}
    ELSE {"ok"} \cup (IF nfail < MaxFailures THEN {"nonzero", "spawnerror"} ELSE {})

\* Lines 92-98 without the cleanDir call of line 93.
PrepareDirNoClean(f, d) == {IF ~ExistsSync(f, d) THEN Mkdir(f, d) ELSE f}

\* Lines 92-98: the directory is emptied when it exists and created when it
\* does not (any longer) exist.
PrepareDir(f, d) ==
    LET cleaned == IF ExistsSync(f, d) THEN CleanDir(f, d) ELSE {f}
    IN  {IF ~ExistsSync(g, d) THEN Mkdir(g, d) ELSE g : g \in cleaned}

\* Line 100: go build -o binPath.
Compile(f, d, bin, outcome) ==
    IF outcome = "ok" THEN [f EXCEPT ![d] = Dir(@.files \cup {bin})] ELSE f

\* runBuildCMD (lines 87-112) called with the log of the call so far. It is an
\* async function without await: its body runs to the end (or to its throw) in
\* the caller's turn, and a throw only rejects the promise nobody awaits.
\* proc.stdout.toString() (line 105) throws on the null stdout of a spawn error.
RunBuildCMD(log, rej, bin, platform, arch) ==
    \E outcome \in Outcomes(platform, arch) :
    \E g \in PrepareDir(fs, <<platform, arch>>) :
        /\ fs' = Compile(g, <<platform, arch>>, bin, outcome)
        /\ invoked' = Append(log, [platform |-> platform, arch |-> arch,
                                   bin |-> bin, outcome |-> outcome])
        /\ rejected' = (rej \/ outcome = "spawnerror")
        /\ nfail' = IF outcome = "ok" \/ platform = Undefined \/ arch = Undefined
                    THEN nfail ELSE nfail + 1

\* buildBinary (lines 50-64) up to the dev-mode return or the start of the loop.
BuildBinary(name, d) ==
    /\ bpc \in {"idle", "done"}
    /\ nbuilds < MaxBuilds
    /\ nbuilds' = nbuilds + 1
    /\ binName' = ExeName(name, GoosOf(host))
    /\ dev' = d
    /\ IF d
       THEN /\ RunBuildCMD(<<>>, FALSE, ExeName(name, GoosOf(host)),
                           GoosOf(host), GoarchOf(host))
            /\ bpc' = "done"
            /\ UNCHANGED <<pi, ai>>
       ELSE /\ bpc' = "loop"
            /\ pi' = 1
            /\ ai' = 1
            /\ invoked' = <<>>
            /\ rejected' = FALSE
            /\ UNCHANGED <<fs, nfail>>
    /\ UNCHANGED <<host, binPresent, rvars, wvars>>

\* Lines 66-82 and 84: the two loops advance; after the last pair the call ends.
Advance ==
    IF ai < Len(ArchValues)
    THEN /\ ai' = ai + 1
         /\ UNCHANGED <<pi, bpc>>
    ELSE IF pi < Len(PlatformValues)
         THEN /\ pi' = pi + 1
              /\ ai' = 1
              /\ UNCHANGED bpc
         ELSE /\ bpc' = "done"
              /\ UNCHANGED <<pi, ai>>

\* One iteration of the inner loop that ends in `continue` (lines 70, 76).
LoopContinue ==
    /\ bpc = "loop"
    /\ Continue(PlatformValues[pi], ArchValues[ai])
    /\ Advance
    /\ UNCHANGED <<host, fs, binName, dev, invoked, rejected, nbuilds, nfail>>
    /\ UNCHANGED <<binPresent, rvars, wvars>>

\* One iteration of the inner loop that reaches runBuildCMD (line 80).
LoopBuild ==
    /\ bpc = "loop"
    /\ ~Continue(PlatformValues[pi], ArchValues[ai])
    /\ RunBuildCMD(invoked, rejected, binName, PlatformValues[pi], ArchValues[ai])
    /\ Advance
    /\ UNCHANGED <<host, binName, dev, nbuilds, binPresent, rvars, wvars>>

InitBuild ==
    /\ host \in Hosts
    /\ binPresent = FALSE
    /\ BuildIdle
    /\ RunIdle
    /\ WorkerIdle

NextBuild ==
    \/ \E name \in BinNames, d \in BOOLEAN : BuildBinary(name, d)
    \/ LoopContinue
    \/ LoopBuild

SpecBuild == InitBuild /\ [][NextBuild]_vars

-----------------------------------------------------------------------------
(* Properties of the build orchestrator *)

\* The exclusion table of the platform matrix, as the specification states it.
ExclusionRules ==
    ({"darwin", "freebsd"} \X {"386", "arm", "mips64le", "ppc64"})
        \cup ({"windows"} \X {"arm", "arm64", "mips64le", "ppc64"})

MatrixPairs == Range(PlatformValues) \X Range(ArchValues)

TargetOf(e) == <<e.platform, e.arch>>

\* C3: every artifact's file name carries the .exe suffix if and only if its
\* target's OS family is windows; on a (linux, amd64) host a complete full-matrix
\* build of "agent" leaves windows-amd64/agent.exe.
C3_ExeIffWindowsTarget ==
    /\ \A k \in 1..Len(invoked) :
          (invoked[k].bin[2] = ".exe") <=> (invoked[k].platform = "windows")
    /\ (/\ host = [platform |-> "linux", arch |-> "x64"]
        /\ bpc = "done" /\ ~dev /\ binName[1] = "agent"
        /\ \A k \in 1..Len(invoked) : invoked[k].outcome = "ok")
       => /\ fs[<<"linux", "amd64">>] = Dir({<<"agent", "">>})
          /\ fs[<<"windows", "amd64">>] = Dir({<<"agent", ".exe">>})

\* C4: in a full-matrix build a failed compiler invocation is the last one of the
\* call (no later target is built), and the artifacts of the targets built before
\* it stay as they were written.
C4_FailureStopsMatrix ==
    ~dev =>
        \A k \in 1..Len(invoked) :
            invoked[k].outcome # "ok" =>
                /\ k = Len(invoked)
                /\ \A j \in 1..(k - 1) :
                      invoked[j].outcome = "ok"
                          => fs[TargetOf(invoked[j])] = Dir({invoked[j].bin})

\* C5: in a full-matrix build no pair the compiler is invoked for matches an
\* exclusion rule.
C5_NoExcludedTargetBuilt ==
    ~dev => \A k \in 1..Len(invoked) : TargetOf(invoked[k]) \notin ExclusionRules

\* A full-matrix build that has run to its end, windows and darwin targets included.
C5_Witness ==
    /\ ~dev
    /\ bpc = "done"
    /\ \E k \in 1..Len(invoked) : invoked[k].platform = "windows"
    /\ \E k \in 1..Len(invoked) : invoked[k].platform = "darwin"

\* C6: a finished dev build invoked the compiler exactly once, for the host's
\* (OS, architecture) identifier, a pair of the matrix; a finished full build
\* invoked it exactly once for every pair of the cross product that is not
\* excluded, and for no other pair.
C6_ExactTargetSet ==
    bpc = "done" =>
        IF dev
        THEN /\ Len(invoked) = 1
             /\ TargetOf(invoked[1]) = <<GoosOf(host), GoarchOf(host)>>
             /\ TargetOf(invoked[1]) \in MatrixPairs
        ELSE /\ \A t \in MatrixPairs \ ExclusionRules :
                    Cardinality({k \in 1..Len(invoked) : TargetOf(invoked[k]) = t}) = 1
             /\ \A k \in 1..Len(invoked) :
                    TargetOf(invoked[k]) \in MatrixPairs \ ExclusionRules

\* C7: after a build of a target, whatever was built there before and under
\* whatever name, the target's directory exists and holds no file but the binary
\* of this build, which is there whenever the compiler succeeded.
C7_ClearIsIdempotent ==
    \A k \in 1..Len(invoked) :
        LET e == invoked[k]
            d == fs[TargetOf(e)]
        IN  /\ d.exists
            /\ d.files \subseteq {e.bin}
            /\ e.outcome = "ok" => d.files = {e.bin}

\* A full build of "agent" followed by a dev build of "tool": the host's target
\* was built twice, under two names, and holds the second binary alone.
C7_Witness ==
    /\ nbuilds = 2 /\ dev /\ bpc = "done"
    /\ invoked[1].bin[1] = "tool" /\ invoked[1].outcome = "ok"
    /\ fs[TargetOf(invoked[1])].files = {invoked[1].bin}
    /\ \E d \in Dirs : d # TargetOf(invoked[1]) /\ \E f \in fs[d].files : f[1] = "agent"
    /\ \A d \in MatrixPairs \ ExclusionRules : fs[d].exists

\* C9: the compiler is never invoked for a target whose OS or architecture is
\* undefined (a host absent from the mappings).
C9_NoUndefinedTarget ==
    \A k \in 1..Len(invoked) :
        invoked[k].platform # Undefined /\ invoked[k].arch # Undefined

\* The targets of a full-matrix build in the order of the declared mappings,
\* the excluded pairs left out.
FullMatrixOrder ==
    << <<"darwin", "arm64">>, <<"darwin", "amd64">>,
       <<"freebsd", "arm64">>, <<"freebsd", "amd64">>,
       <<"linux", "arm">>, <<"linux", "arm64">>, <<"linux", "386">>,
       <<"linux", "amd64">>, <<"linux", "mips64le">>, <<"linux", "ppc64">>,
       <<"windows", "386">>, <<"windows", "amd64">> >>

\* C17: in a full-matrix build the k-th compiler invocation is for the k-th
\* target of the matrix in OS-major, architecture-minor order of the declared
\* mappings, and the invocations happen one after another: each step that
\* clears, creates or fills a directory is the step of exactly one invocation,
\* the next one of the call, and touches the directory of its target only.
C17_SequentialInDeclaredOrder ==
    [][/\ ~dev' =>
            /\ Len(invoked') <= Len(FullMatrixOrder)
            /\ \A k \in 1..Len(invoked') :
                  TargetOf(invoked'[k]) = FullMatrixOrder[k]
       /\ (~dev' /\ invoked' # invoked /\ invoked' # <<>>) =>
            /\ Len(invoked') = Len(invoked) + 1
            /\ SubSeq(invoked', 1, Len(invoked)) = invoked
       /\ fs' # fs =>
            /\ invoked' # <<>>
            /\ \A d \in DOMAIN fs :
                  d # TargetOf(invoked'[Len(invoked')]) => fs'[d] = fs[d]
      ]_vars

\* A full-matrix build ran to its end: twelve invocations, the first for
\* darwin-arm64 and the last for windows-amd64.
C17_Witness ==
    /\ ~dev
    /\ bpc = "done"
    /\ Len(invoked) = 12
    /\ TargetOf(invoked[1]) = <<"darwin", "arm64">>
    /\ TargetOf(invoked[12]) = <<"windows", "amd64">>

-----------------------------------------------------------------------------
(* Properties of the synchronous runner and its timing-log parser *)

\* C8: a runPlatformBin call that finds no file at the resolved binary path
\* returns (it does not throw), has spawned no child process, has written
\* nothing to either log sink, and returns the pair of empty strings.
C8_MissingBinaryShortCircuits ==
    (rpc = "returned" /\ ~binPresent) =>
        /\ spawned = 0
        /\ outLog = <<>>
        /\ errLog = <<>>
        /\ ret = <<<<>>, <<>>>>

\* A call with a log label has returned on a host where the binary is missing.
C8_Witness ==
    /\ rpc = "returned"
    /\ ~binPresent
    /\ logName = "[compiler]"

\* The last call ran the child, was given a log label, and the child wrote a
\* non-empty payload to its stderr.
ParsedRun ==
    /\ rpc = "returned"
    /\ spawned = 1
    /\ logName # ""
    /\ ret[2] \notin {<<>>, NoText}

DurationEmitted == \E i \in 1..Len(outLog) : outLog[i].kind = "duration"

\* The rest of the branch rule, common to C10 as stated and as amended: without
\* a duration the first segment is the first error line, and a non-empty second
\* part is the last error line.
ErrorLinesRule(parts) ==
    /\ ~DurationEmitted => (errLog # <<>> /\ errLog[1] = parts[1])
    /\ (Len(parts) >= 2 /\ parts[2] # <<>>)
           => (errLog # <<>> /\ errLog[Len(errLog)] = parts[2])

\* C10 as stated: for a non-empty stderr payload and a log label, a duration
\* line is emitted if and only if the payload splits on the delimiter into
\* exactly two parts; otherwise the first segment is logged as an error; a
\* non-empty second part is always logged as an error.
C10_DurationIffTwoParts ==
    ParsedRun =>
        LET parts == Split(ret[2], Delimiter)
        IN  /\ DurationEmitted <=> Len(parts) = 2
            /\ ErrorLinesRule(parts)

\* C10 as amended: a duration line is emitted if and only if the payload splits
\* into exactly two parts and the first part is not empty; otherwise the first
\* segment, empty or not, is logged as an error and no duration is emitted; a
\* non-empty second part is always logged as an error.
C10_DurationIffTwoPartsFirstNonEmpty ==
    ParsedRun =>
        LET parts == Split(ret[2], Delimiter)
        IN  /\ DurationEmitted <=> (Len(parts) = 2 /\ parts[1] # <<>>)
            /\ ErrorLinesRule(parts)

\* The payload "123.456ms+~+~+boom" was parsed: one duration line, and "boom"
\* as the only error line.
C10_Witness ==
    /\ ParsedRun
    /\ ret[2] = <<"1", "2", "3", ".", "4", "5", "6", "m", "s">> \o Delimiter
                    \o <<"b", "o", "o", "m">>
    /\ DurationEmitted
    /\ errLog = << <<"b", "o", "o", "m">> >>


\* The first part of the payload of the last call, and the text of the duration
\* line the call wrote (the last thing it wrote to stdout).
TimestampPart == Split(ret[2], Delimiter)[1]

DurationText == outLog[Len(outLog)].text

\* The 1-based position of the first "." of s, 0 when it has none.
FirstDot(s) ==
    LET at == {i \in 1..Len(s) : s[i] = "."}
    IN  IF at = {} THEN 0 ELSE CHOOSE i \in at : \A j \in at : i <= j

\* The longest prefix of s without a letter.
LeadingRun(s) ==
    LET ok == {n \in 0..Len(s) : \A i \in 1..n : ~IsLetter(s[i])}
    IN  SubSeq(s, 1, CHOOSE n \in ok : \A m \in ok : m <= n)

\* The first n characters of s, and s from its 1-based position m on.
Take(s, n) == SubSeq(s, 1, Min(n, Len(s)))

From(s, m) == SubSeq(s, m, Len(s))

\* C11 as stated: for a timestamp part with a decimal point the displayed
\* duration is the leading numeric run cut two places past the decimal point,
\* then the numeric run from four characters after the decimal point to its
\* end, then the unit.
C11_SpliceTwoPlacesThenFourth ==
    (ParsedRun /\ DurationEmitted /\ FirstDot(TimestampPart) > 0) =>
        LET ts == TimestampPart
            run == LeadingRun(ts)
            dot == FirstDot(ts)
        IN  DurationText = Take(run, dot + 2) \o From(run, dot + 4) \o Unit(ts)

\* C11 as amended: the displayed duration is the leading numeric run cut one
\* place past the decimal point, then the numeric run from its sixth character
\* after the decimal point to its end, then the unit.
C11_SpliceOnePlaceThenSixth ==
    (ParsedRun /\ DurationEmitted /\ FirstDot(TimestampPart) > 0) =>
        LET ts == TimestampPart
            run == LeadingRun(ts)
            dot == FirstDot(ts)
        IN  DurationText = Take(run, dot + 1) \o From(run, dot + 6) \o Unit(ts)

\* The payload "1.2345678ms+~+~+boom" was parsed: the duration line reads
\* "1.278ms" and "boom" is the error line.
C11_Witness ==
    /\ ParsedRun
    /\ ret[2] = <<"1", ".", "2", "3", "4", "5", "6", "7", "8", "m", "s">>
                    \o Delimiter \o <<"b", "o", "o", "m">>
    /\ DurationEmitted
    /\ DurationText = <<"1", ".", "2", "7", "8", "m", "s">>
    /\ errLog = << <<"b", "o", "o", "m">> >>


\* The longest suffix of s made of letters and the micro sign only.
AlphabeticSuffix(s) ==
    LET ok == {n \in 0..Len(s) : \A i \in (Len(s) - n + 1)..Len(s) : IsLetter(s[i])}
        n == CHOOSE k \in ok : \A m \in ok : m <= k
    IN  SubSeq(s, Len(s) - n + 1, Len(s))

HasLetter(s) == \E i \in 1..Len(s) : IsLetter(s[i])

\* C12: the unit of the displayed duration is the alphabetic suffix of the
\* timestamp part, and is "ms" only when the timestamp part has no alphabetic
\* character.
C12_UnitIsAlphabeticSuffix ==
    (ParsedRun /\ DurationEmitted) =>
        AlphabeticSuffix(DurationText) =
            IF HasLetter(TimestampPart)
            THEN AlphabeticSuffix(TimestampPart)
            ELSE <<"m", "s">>

-----------------------------------------------------------------------------
(* Properties of the supervised runner *)

LiveWorkers == {w \in WorkerIds : wstatus[w] = "live"}

\* C1: whenever the current worker's message is the one that set initialized
\* to true, every worker created before it has been terminated.
C1_SingleFlight ==
    (initialized /\ worker > 1 /\ initBy = worker)
        => \A v \in 1..(worker - 1) : wstatus[v] \in {"terminated", "exited"}

\* C2: at most one worker execution context is live.
C2_AtMostOneLiveWorker == Cardinality(LiveWorkers) <= 1

\* The workers that a later call of runPlatformBinInWorker replaced.
Superseded == {w \in 1..nworkers : w # worker}

HasRunningChild(w) == \E c \in DOMAIN children[w] : children[w][c] = "running"

\* A terminate instruction is on its way to a worker thread that can handle it.
KillPending(w) ==
    /\ wstatus[w] = "live"
    /\ \E i \in DOMAIN inbox[w] : inbox[w][i].terminate

\* C13: the child of a superseded worker gets killed. No call after the one
\* that superseded a worker posts to it again, so its running child can still
\* be killed only while the terminate instruction of that call is pending in a
\* live worker thread.
C13_SupersededChildGetsKilled ==
    ~hostCrashed => \A w \in Superseded : HasRunningChild(w) => KillPending(w)

\* C14: the first message received after a call of runPlatformBinInWorker sets
\* initialized without terminating any worker; every later message received
\* before the next call leaves the current worker terminated; every received
\* message is written to the log.
C14_FirstInitializesLaterTerminate ==
    [][received' = received + 1 =>
          /\ initialized'
          /\ \E w \in WorkerIds : wlog' = Append(wlog, <<"message", w>>)
          /\ received = 0 => wstatus' = wstatus
          /\ received > 0 =>
                /\ wstatus'[worker] # "live"
                /\ \A v \in WorkerIds : v # worker => wstatus'[v] = wstatus[v]
      ]_vars

\* Two messages were received since the last call, and the second one
\* terminated the current worker.
C14_Witness ==
    /\ received = 2
    /\ initialized
    /\ wstatus[worker] = "terminated"
    /\ Len(wlog) = 2

\* C15: no failure of the supervised runner, a missing binary and any other
\* asynchronous spawn failure included, crashes the host process.
C15_NoFailureCrashesHost == ~hostCrashed

\* Worker w takes a terminate instruction from its port in this step.
HandlesTerminate(w) ==
    /\ wstatus[w] = "live"
    /\ inbox[w] # <<>>
    /\ Head(inbox[w]).terminate
    /\ inbox'[w] = Tail(inbox[w])

\* C16: on a terminate instruction the worker kills its tracked child if that
\* child runs, and does nothing else: no process is spawned, no message is
\* posted to the parent, the tracked handle stays as it is; with no tracked
\* child nothing changes at all.
C16_TerminateOnlyKills ==
    [][\A w \in WorkerIds : HandlesTerminate(w) =>
          /\ proc' = proc
          /\ outbox' = outbox
          /\ \A v \in WorkerIds : Len(children'[v]) = Len(children[v])
          /\ \A v \in WorkerIds : v # w => children'[v] = children[v]
          /\ \A c \in DOMAIN children[w] :
                children'[w][c] =
                    IF c = proc[w] /\ children[w][c] = "running"
                    THEN "killed"
                    ELSE children[w][c]
          /\ proc[w] = 0 => children' = children
          /\ UNCHANGED <<worker, initialized, nworkers, wstatus, wlog, hostCrashed>>
      ]_vars

\* A worker handled its terminate instruction and its tracked child was killed.
C16_Witness ==
    \E w \in WorkerIds :
        /\ proc[w] # 0
        /\ children[w][proc[w]] = "killed"
        /\ inbox[w] = <<>>
        /\ outbox[w] = <<"[cmd]">>

\* The messages of worker w that the "message" handlers of main.js ran for.
MessagesFrom(w) == {k \in 1..Len(wlog) : wlog[k] = <<"message", w>>}

\* C18: a message of a superseded worker delivered after its replacement never
\* sets initialized on behalf of the current worker and never gets the current
\* worker terminated: the flag set since the last call was set by a message of
\* the current worker, and a current worker that the handler terminated had
\* two of its own messages received before.
C18_StaleMessagesAreIgnored ==
    ~hostCrashed =>
        /\ (worker # 0 /\ initialized) => initBy = worker
        /\ (worker # 0 /\ wstatus[worker] \in {"terminated", "exited"})
              => Cardinality(MessagesFrom(worker)) >= 2

\* The spawn instructions (terminate = false) still in the port of worker w.
SpawnPending(w) == {i \in DOMAIN inbox[w] : ~inbox[w][i].terminate}

\* C19: every worker gets exactly one spawn instruction (still in its port or
\* already handled) and spawns at most one child; a running child is the one
\* its worker's handle tracks, and its worker can take a terminate instruction
\* that kills it.
C19_EveryChildStaysReachable ==
    ~hostCrashed =>
        \A w \in 1..nworkers :
            /\ Cardinality(SpawnPending(w)) + Len(children[w]) = 1
            /\ Len(children[w]) <= 1
            /\ \A c \in DOMAIN children[w] :
                  children[w][c] = "running" =>
                      /\ proc[w] = c
                      /\ wstatus[w] = "live"

====
